---- MODULE Spec2Model ----
(***************************************************************************)
(* Model of plume's ELVL metadata decoder (src/src/elvl.rs): the top-level *)
(* chunk loop of elvl_read, the region sub-chunk loop of its REGN arm and  *)
(* the run-length tile decoder Region::parse_data; and of its caller       *)
(* Map::load (src/src/map.rs), which decodes the tile grid of the file and *)
(* then calls elvl_read on the same bytes.                                 *)
(*                                                                         *)
(* The input file is a sequence of bytes (0..255).  A slice of it is a     *)
(* pair of offsets [lo, hi) into the file.  u16 arithmetic keeps its       *)
(* width: an overflowing operation panics when the crate is built with     *)
(* overflow checks (the debug profile) and wraps modulo 2^16 otherwise     *)
(* (the release profile); overflow_checks is the profile of the build.     *)
(***************************************************************************)
EXTENDS Integers, Sequences, FiniteSets, TLC

\* ------------------------------------------------------------------------
\* Program constants
\* ------------------------------------------------------------------------
METADATA_HEADER_SIZE == 12
CHUNK_HEADER_SIZE == 8
REGION_CHUNK_HEADER_SIZE == 8
\* row width of the tile grid, the 1024 of get_index / advance / get_tiles
GRID == 1024
\* number of values of a u16
U16 == 65536
\* "elvl" read as a little-endian u32 (0x6c766c65)
ELVL_MAGIC == 1819700325
\* chunk tags read as little-endian u32
TAG_ATTR == 1381258305
TAG_REGN == 1313293650
TAG_rNAM == 1296125554
TAG_rTIL == 1279874162
TAG_rBSE == 1163084402
TAG_rNAW == 1463897714
TAG_rNWP == 1347898994
TAG_rNFL == 1279676018
\* RegionFlags
Base == 1
NoAntiwarp == 2
NoWeapons == 4
NoFlags == 8

\* ------------------------------------------------------------------------
\* Bytes and slices
\* ------------------------------------------------------------------------
\* the bytes file[lo..hi) as a sequence
Slice(file, lo, hi) == [i \in 1..(hi - lo) |-> file[lo + i]]

\* u32::from_le_bytes of the 4 bytes at offset off (0-based) of file
from_le_bytes(file, off) ==
    file[off + 1] + 256 * file[off + 2] + 65536 * file[off + 3]
        + 16777216 * file[off + 4]

\* (size + 3) & !3
AlignUp4(size) == ((size + 3) \div 4) * 4

\* std::str::from_utf8(bytes).is_ok()
RECURSIVE Utf8From(_, _)
Utf8From(s, i) ==
    IF i > Len(s) THEN TRUE
    ELSE LET b == s[i]
             Cont(k) == k <= Len(s) /\ s[k] >= 128 /\ s[k] <= 191
             In(k, lo, hi) == k <= Len(s) /\ s[k] >= lo /\ s[k] <= hi
         IN  IF b <= 127 THEN Utf8From(s, i + 1)
             ELSE IF b >= 194 /\ b <= 223
                  THEN Cont(i + 1) /\ Utf8From(s, i + 2)
             ELSE IF b = 224
                  THEN In(i + 1, 160, 191) /\ Cont(i + 2) /\ Utf8From(s, i + 3)
             ELSE IF b = 237
                  THEN In(i + 1, 128, 159) /\ Cont(i + 2) /\ Utf8From(s, i + 3)
             ELSE IF b >= 225 /\ b <= 239
                  THEN Cont(i + 1) /\ Cont(i + 2) /\ Utf8From(s, i + 3)
             ELSE IF b = 240
                  THEN In(i + 1, 144, 191) /\ Cont(i + 2) /\ Cont(i + 3)
                       /\ Utf8From(s, i + 4)
             ELSE IF b >= 241 /\ b <= 243
                  THEN Cont(i + 1) /\ Cont(i + 2) /\ Cont(i + 3)
                       /\ Utf8From(s, i + 4)
             ELSE IF b = 244
                  THEN In(i + 1, 128, 143) /\ Cont(i + 2) /\ Cont(i + 3)
                       /\ Utf8From(s, i + 4)
             ELSE FALSE

from_utf8_ok(s) == Utf8From(s, 1)

\* ------------------------------------------------------------------------
\* Region
\* ------------------------------------------------------------------------
\* Region::empty
EmptyRegion == [name |-> <<>>, flags |-> 0, tiles |-> {}, tile_count |-> 0]

\* get_index with the column kept inside the row
get_index_Clamp(x, y) == y * GRID + (x % GRID)

\* Region::get_index (usize arithmetic: no overflow for u16 arguments)
get_index(x, y) == y * GRID + x

\* set_tile counting every call
set_tile_CountAlways(r, x, y) ==
    [r EXCEPT !.tiles = @ \cup {get_index(x, y)}, !.tile_count = @ + 1]

\* Region::set_tile
set_tile(r, x, y) ==
    LET index == get_index(x, y)
    IN  IF index \in r.tiles
        THEN r
        ELSE [r EXCEPT !.tiles = @ \cup {index}, !.tile_count = @ + 1]

\* Region::in_region
in_region(r, x, y) == get_index(x, y) \in r.tiles

\* Region::get_tiles: the (x, y) pairs, each component cast to u16
get_tiles(r) == {<<index % GRID, (index \div GRID) % U16>> : index \in r.tiles}

\* ------------------------------------------------------------------------
\* Region::parse_data, one record
\* ------------------------------------------------------------------------
\* sequence_kind = data[0] >> 5
sequence_kind(b0) == b0 \div 32

\* ((data[0] & 0x1F) + 1) as u16
ShortRun(b0) == (b0 % 32) + 1

\* LongRun without the two bits of the first byte
LongRun_LowByte(b0, b1) == b1 + 1

\* (((data[0] as u16 & 3) << 8) | (data[1] as u16)) + 1
LongRun(b0, b1) == ((b0 % 4) * 256 + b1) + 1

\* advance that carries the columns past the end of the row into the next
advance_Carry(coord, run) ==
    LET x1 == coord[1] + run
        xw == x1 % U16
    IN  IF xw >= GRID
        THEN [ovf |-> x1 >= U16 \/ coord[2] + 1 >= U16,
              coord |-> <<xw - GRID, (coord[2] + 1) % U16>>]
        ELSE [ovf |-> x1 >= U16, coord |-> <<xw, coord[2]>>]

\* advance that stays on its row
advance_SameRow(coord, run) ==
    LET x1 == coord[1] + run
        xw == x1 % U16
    IN  IF xw >= GRID
        THEN [ovf |-> x1 >= U16, coord |-> <<0, coord[2]>>]
        ELSE [ovf |-> x1 >= U16, coord |-> <<xw, coord[2]>>]

\* The closure advance.  ovf tells that a u16 addition overflowed; coord is
\* the value computed with wrapping arithmetic.
advance(coord, run) ==
    LET x1 == coord[1] + run
        xw == x1 % U16
    IN  IF xw >= GRID
        THEN [ovf |-> x1 >= U16 \/ coord[2] + 1 >= U16,
              coord |-> <<0, (coord[2] + 1) % U16>>]
        ELSE [ovf |-> x1 >= U16, coord |-> <<xw, coord[2]>>]

\* for i in lo..hi { self.set_tile(coord.0 + i, coord.1) }: the iterations
\* in order.  A long range is halved, and the region the first half leaves
\* is computed (bound to m) before the second half runs on it, which keeps
\* the evaluation shallow.
RECURSIVE PresentLoop(_, _, _, _)
PresentLoop(r, coord, lo, hi) ==
    IF lo >= hi THEN r
    ELSE IF hi - lo <= 16
         THEN PresentLoop(set_tile(r, (coord[1] + lo) % U16, coord[2]),
                          coord, lo + 1, hi)
    ELSE LET mid == (lo + hi) \div 2
         IN  CHOOSE out \in {PresentLoop(m, coord, mid, hi) :
                                m \in {PresentLoop(r, coord, lo, mid)}} : TRUE

\* for x in lo..hi { if self.in_region(x, src) { self.set_tile(x, dst) } }:
\* the iterations in order, evaluated likewise.  A range of columns none of
\* which is in the region on row src leaves the region as it is.
RECURSIVE RepeatRow(_, _, _, _, _)
RepeatRow(r, lo, hi, src, dst) ==
    IF lo >= hi THEN r
    ELSE IF \A index \in r.tiles :
                index < get_index(lo, src) \/ index >= get_index(hi, src)
         THEN r
    ELSE IF hi - lo <= 16
         THEN RepeatRow(IF in_region(r, lo, src) THEN set_tile(r, lo, dst) ELSE r,
                        lo + 1, hi, src, dst)
    ELSE LET mid == (lo + hi) \div 2
         IN  CHOOSE out \in {RepeatRow(m, mid, hi, src, dst) :
                                m \in {RepeatRow(r, lo, mid, src, dst)}} : TRUE

\* for i in lo..hi { for x in 0..1024 { ... coord.1 - 1 ... coord.1 + i } }:
\* the iterations in order, evaluated likewise
RECURSIVE RepeatLoop(_, _, _, _)
RepeatLoop(r, y, lo, hi) ==
    IF lo >= hi THEN r
    ELSE IF hi - lo = 1
         THEN RepeatRow(r, 0, GRID, (y - 1) % U16, (y + lo) % U16)
    ELSE LET mid == (lo + hi) \div 2
         IN  CHOOSE out \in {RepeatLoop(m, y, mid, hi) :
                                m \in {RepeatLoop(r, y, lo, mid)}} : TRUE

\* One iteration of the while loop of parse_data on the non-empty slice d
\* with the cursor coord.  st is "ok" (the loop goes on), "err" (return Err)
\* or "panic"; checks is the overflow_checks setting of the build.
DecodeRecord(r, d, coord, checks) ==
    LET b0 == d[1]
        kind == sequence_kind(b0)
        long == kind % 2 = 1
        run == IF long THEN LongRun(b0, d[2]) ELSE ShortRun(b0)
        Out(st, reg, c) ==
            [st |-> st, region |-> reg, coord |-> c,
             consumed |-> IF long THEN 2 ELSE 1]
        Checked(ovf, reg, c) ==
            IF ovf /\ checks THEN Out("panic", r, coord) ELSE Out("ok", reg, c)
    IN  IF kind \in {1, 3, 5} /\ Len(d) < 2 THEN Out("err", r, coord)
        ELSE IF kind = 7 /\ Len(d) < 2 THEN Out("panic", r, coord)
        ELSE IF kind \in {0, 1}
             THEN LET a == advance(coord, run)
                  IN  Checked(a.ovf, r, a.coord)
        ELSE IF kind \in {2, 3}
             THEN LET a == advance(coord, run)
                  IN  Checked(a.ovf \/ coord[1] + (run - 1) >= U16,
                              PresentLoop(r, coord, 0, run), a.coord)
        ELSE IF kind \in {4, 5}
             THEN Checked(coord[2] + run >= U16, r, <<0, (coord[2] + run) % U16>>)
        ELSE Checked(coord[2] = 0 \/ coord[2] + run >= U16,
                     RepeatLoop(r, coord[2], 0, run),
                     <<0, (coord[2] + run) % U16>>)

\* ------------------------------------------------------------------------
\* State
\* ------------------------------------------------------------------------
VARIABLES
    entry,            \* the function called: "load" (Map::load, which calls
                      \* elvl_read) or "elvl_read" (elvl_read on its own)
    map,              \* map of Map::load: elvl, tiles (the cells written so
                      \* far, every other cell being 0) and tileset
    tiledata_offset,  \* tiledata_offset of Map::load
    tile_i,           \* i of the tile loop of Map::load
    data,             \* the bytes of the file, handed to elvl_read
    overflow_checks,  \* TRUE: built with overflow checks (debug profile)
    pc,               \* "elvl_read", "chunk_loop", "region_loop",
                      \* "parse_data" or "done" (elvl_read has returned);
                      \* "load", "tile_loop" or "loaded" (load has returned)
    ret,              \* "none" while running, then "Ok", "Err" or "Panic"
    chunks,           \* the vector chunks of elvl_read
    total_size,       \* header.total_size
    pos,              \* offset in the file where the slice `data` of the
                      \* chunk loop starts (it always ends at the file's end)
    consumed,         \* consumed of elvl_read
    chunk_header,     \* header of the top-level chunk being decoded
    region,           \* region of the REGN arm
    region_data,      \* [lo, hi): the slice region_data
    chunk_size,       \* chunk_size of the sub-chunk being decoded
    coord,            \* coord of the REGN arm, threaded through parse_data
    til               \* [lo, hi): the slice `data` of parse_data

vars == <<entry, map, tiledata_offset, tile_i, data, overflow_checks, pc, ret,
          chunks, total_size, pos, consumed, chunk_header, region, region_data,
          chunk_size, coord, til>>

\* the locals of Map::load
caller == <<entry, map, tiledata_offset, tile_i>>
\* what a call of elvl_read never changes
input == <<data, overflow_checks, caller>>
\* the locals of the REGN arm
regn == <<region, region_data, chunk_size, coord, til>>
\* the locals of the chunk loop
top == <<chunks, total_size, pos, consumed, chunk_header>>

NoSlice == [lo |-> 0, hi |-> 0]
NoHeader == [kind |-> 0, size |-> 0]

\* metadata_offset = u32::from_le_bytes(data[6..10])
metadata_offset(file) == from_le_bytes(file, 6)

\* consumed starting from nothing
InitialConsumed_Zero == METADATA_HEADER_SIZE - METADATA_HEADER_SIZE

\* the value consumed starts from
InitialConsumed == METADATA_HEADER_SIZE

\* the function returns (ret) and every local is dropped
Return(value) ==
    /\ pc' = "done"
    /\ ret' = value
    /\ UNCHANGED input

\* ------------------------------------------------------------------------
\* elvl_read, up to the chunk loop
\* ------------------------------------------------------------------------
\* ElvlReadEnter without the comparison of header.magic
ElvlReadEnter_AnyMagic ==
    /\ pc = "elvl_read"
    /\ IF \/ Len(data) < 10
          \/ data[1] # 66 \/ data[2] # 77
          \/ metadata_offset(data) = 0
          \/ Len(data) < metadata_offset(data) + METADATA_HEADER_SIZE
       THEN /\ Return("Ok")
            /\ UNCHANGED <<top, regn>>
       ELSE /\ pc' = "chunk_loop"
            /\ total_size' = from_le_bytes(data, metadata_offset(data) + 4)
            /\ pos' = metadata_offset(data) + METADATA_HEADER_SIZE
            /\ consumed' = InitialConsumed
            /\ UNCHANGED <<input, ret, chunks, chunk_header, regn>>

ElvlReadEnter ==
    /\ pc = "elvl_read"
    /\ IF \/ Len(data) < 10
          \/ data[1] # 66 \/ data[2] # 77
          \/ metadata_offset(data) = 0
          \/ Len(data) < metadata_offset(data) + METADATA_HEADER_SIZE
          \/ from_le_bytes(data, metadata_offset(data)) # ELVL_MAGIC
       THEN /\ Return("Ok")
            /\ UNCHANGED <<top, regn>>
       ELSE /\ pc' = "chunk_loop"
            /\ total_size' = from_le_bytes(data, metadata_offset(data) + 4)
            /\ pos' = metadata_offset(data) + METADATA_HEADER_SIZE
            /\ consumed' = InitialConsumed
            /\ UNCHANGED <<input, ret, chunks, chunk_header, regn>>

\* ------------------------------------------------------------------------
\* The chunk loop
\* ------------------------------------------------------------------------
\* data.len() of the chunk loop
Remaining == Len(data) - pos

\* while data.len() >= CHUNK_HEADER_SIZE && consumed < header.total_size
ChunkLoopCondition == Remaining >= CHUNK_HEADER_SIZE /\ consumed < total_size

\* ChunkHeader::new(data[0..CHUNK_HEADER_SIZE])
HeaderAt(off) == [kind |-> from_le_bytes(data, off),
                  size |-> from_le_bytes(data, off + 4)]

\* &data[CHUNK_HEADER_SIZE..CHUNK_HEADER_SIZE + size] is within the slice
PayloadInRange(h) == CHUNK_HEADER_SIZE + h.size <= Remaining

\* payload
Payload(h) == Slice(data, pos + CHUNK_HEADER_SIZE, pos + CHUNK_HEADER_SIZE + h.size)

\* TotalChunkSize without the padding
TotalChunkSize_NoPadding(h) == CHUNK_HEADER_SIZE + h.size

\* CHUNK_HEADER_SIZE + ((chunk_header.size + 3) & !3)
TotalChunkSize(h) == CHUNK_HEADER_SIZE + AlignUp4(h.size)

\* PushAndAdvance with the chunk put in front of the vector
PushAndAdvance_Front(h, chunk) ==
    IF TotalChunkSize(h) > Remaining
    THEN /\ Return("Panic")
         /\ UNCHANGED <<top, regn>>
    ELSE /\ chunks' = <<chunk>> \o chunks
         /\ pos' = pos + TotalChunkSize(h)
         /\ consumed' = consumed + TotalChunkSize(h)
         /\ pc' = "chunk_loop"
         /\ UNCHANGED <<input, ret, total_size, chunk_header, regn>>

\* chunks.push(chunk); data = &data[total_chunk_size..]; consumed += ...
PushAndAdvance(h, chunk) ==
    IF TotalChunkSize(h) > Remaining
    THEN /\ Return("Panic")
         /\ UNCHANGED <<top, regn>>
    ELSE /\ chunks' = Append(chunks, chunk)
         /\ pos' = pos + TotalChunkSize(h)
         /\ consumed' = consumed + TotalChunkSize(h)
         /\ pc' = "chunk_loop"
         /\ UNCHANGED <<input, ret, total_size, chunk_header, regn>>

\* the loop condition is false: Ok(chunks)
ChunkLoopExit ==
    /\ pc = "chunk_loop"
    /\ ~ChunkLoopCondition
    /\ Return("Ok")
    /\ UNCHANGED <<top, regn>>

\* the payload slice reaches beyond the buffer: the slice index panics
ChunkPayloadOutOfRange ==
    /\ pc = "chunk_loop"
    /\ ChunkLoopCondition
    /\ ~PayloadInRange(HeaderAt(pos))
    /\ Return("Panic")
    /\ UNCHANGED <<top, regn>>

\* index of the last '=' of the payload, 0 if there is none
FirstEq_Last(p) ==
    IF \E i \in 1..Len(p) : p[i] = 61
    THEN CHOOSE i \in 1..Len(p) : p[i] = 61 /\ \A j \in (i + 1)..Len(p) : p[j] # 61
    ELSE 0

\* index of the first '=' of the payload, 0 if there is none
FirstEq(p) ==
    IF \E i \in 1..Len(p) : p[i] = 61
    THEN CHOOSE i \in 1..Len(p) : p[i] = 61 /\ \A j \in 1..(i - 1) : p[j] # 61
    ELSE 0

\* the ATTR arm
ChunkAttribute ==
    /\ pc = "chunk_loop"
    /\ ChunkLoopCondition
    /\ LET h == HeaderAt(pos)
       IN  /\ PayloadInRange(h)
           /\ h.kind = TAG_ATTR
           /\ LET p == Payload(h)
                  eq == FirstEq(p)
                  key == SubSeq(p, 1, eq - 1)
                  value == SubSeq(p, eq + 1, Len(p))
              IN  IF eq = 0 \/ ~from_utf8_ok(key) \/ ~from_utf8_ok(value)
                  THEN /\ Return("Err")
                       /\ UNCHANGED <<top, regn>>
                  ELSE PushAndAdvance(h, [type |-> "Attribute", key |-> key,
                                          value |-> value])

\* the arm of every other tag: Chunk::Other(kind, payload)
ChunkOther ==
    /\ pc = "chunk_loop"
    /\ ChunkLoopCondition
    /\ LET h == HeaderAt(pos)
       IN  /\ PayloadInRange(h)
           /\ h.kind \notin {TAG_ATTR, TAG_REGN}
           /\ PushAndAdvance(h, [type |-> "Other", kind |-> h.kind,
                                 payload |-> Payload(h)])

\* the cursor a REGN chunk starts from
InitialCoord == <<0, 0>>

\* the REGN arm, up to its sub-chunk loop
ChunkRegion ==
    /\ pc = "chunk_loop"
    /\ ChunkLoopCondition
    /\ LET h == HeaderAt(pos)
       IN  /\ PayloadInRange(h)
           /\ h.kind = TAG_REGN
           /\ chunk_header' = h
           /\ region' = EmptyRegion
           /\ region_data' = [lo |-> pos + CHUNK_HEADER_SIZE,
                              hi |-> pos + CHUNK_HEADER_SIZE + h.size]
           /\ coord' = InitialCoord
           /\ pc' = "region_loop"
           /\ UNCHANGED <<input, ret, chunks, total_size, pos, consumed,
                          chunk_size, til>>

\* ------------------------------------------------------------------------
\* The sub-chunk loop of the REGN arm
\* ------------------------------------------------------------------------
\* region_data.len()
RegionRemaining == region_data.hi - region_data.lo

\* while region_data.len() > REGION_CHUNK_HEADER_SIZE
RegionLoopCondition == RegionRemaining > REGION_CHUNK_HEADER_SIZE

SubKind == from_le_bytes(data, region_data.lo)
SubSize == from_le_bytes(data, region_data.lo + 4)

\* &region_data[8..8 + chunk_size] is within the slice
SubPayloadInRange == 8 + SubSize <= RegionRemaining

\* region_chunk_payload
SubPayload == Slice(data, region_data.lo + 8, region_data.lo + 8 + SubSize)

\* REGION_CHUNK_HEADER_SIZE + ((chunk_size + 3) & !3)
SubTotalChunkSize(size) == REGION_CHUNK_HEADER_SIZE + AlignUp4(size)

\* SubAdvance with the cursor started afresh for the next sub-chunk
SubAdvance_ResetCoord(size, reg, c) ==
    IF SubTotalChunkSize(size) > RegionRemaining
    THEN /\ Return("Panic")
         /\ UNCHANGED <<top, regn>>
    ELSE /\ region' = reg
         /\ coord' = <<0, 0>>
         /\ region_data' = [region_data EXCEPT !.lo = @ + SubTotalChunkSize(size)]
         /\ pc' = "region_loop"
         /\ UNCHANGED <<input, ret, top, chunk_size, til>>

\* region_data = &region_data[total_chunk_size..], after the sub-chunk of
\* payload size `size` left the region as reg and the cursor as c
SubAdvance(size, reg, c) ==
    IF SubTotalChunkSize(size) > RegionRemaining
    THEN /\ Return("Panic")
         /\ UNCHANGED <<top, regn>>
    ELSE /\ region' = reg
         /\ coord' = c
         /\ region_data' = [region_data EXCEPT !.lo = @ + SubTotalChunkSize(size)]
         /\ pc' = "region_loop"
         /\ UNCHANGED <<input, ret, top, chunk_size, til>>

\* the loop condition is false: Chunk::Region(region) is pushed
RegionLoopExit ==
    /\ pc = "region_loop"
    /\ ~RegionLoopCondition
    /\ PushAndAdvance(chunk_header, [type |-> "Region", region |-> region])

\* the sub-chunk's payload slice reaches beyond the REGN payload
SubPayloadOutOfRange ==
    /\ pc = "region_loop"
    /\ RegionLoopCondition
    /\ ~SubPayloadInRange
    /\ Return("Panic")
    /\ UNCHANGED <<top, regn>>

\* the rNAM arm: from_utf8(..).unwrap()
SubName ==
    /\ pc = "region_loop"
    /\ RegionLoopCondition
    /\ SubPayloadInRange
    /\ SubKind = TAG_rNAM
    /\ IF from_utf8_ok(SubPayload)
       THEN SubAdvance(SubSize, [region EXCEPT !.name = SubPayload], coord)
       ELSE /\ Return("Panic")
            /\ UNCHANGED <<top, regn>>

\* region.flags |= bit
OrFlag(flags, bit) == IF (flags \div bit) % 2 = 1 THEN flags ELSE flags + bit

\* the bit of a flag tag
FlagOf(kind) ==
    CASE kind = TAG_rBSE -> Base
      [] kind = TAG_rNAW -> NoAntiwarp
      [] kind = TAG_rNWP -> NoWeapons
      [] kind = TAG_rNFL -> NoFlags

\* the rBSE, rNAW, rNWP and rNFL arms
SubFlag ==
    /\ pc = "region_loop"
    /\ RegionLoopCondition
    /\ SubPayloadInRange
    /\ SubKind \in {TAG_rBSE, TAG_rNAW, TAG_rNWP, TAG_rNFL}
    /\ SubAdvance(SubSize,
                  [region EXCEPT !.flags = OrFlag(@, FlagOf(SubKind))], coord)

\* the arm of every other tag
SubIgnored ==
    /\ pc = "region_loop"
    /\ RegionLoopCondition
    /\ SubPayloadInRange
    /\ SubKind \notin {TAG_rNAM, TAG_rTIL, TAG_rBSE, TAG_rNAW, TAG_rNWP, TAG_rNFL}
    /\ SubAdvance(SubSize, region, coord)

\* the rTIL arm: region.parse_data(region_chunk_payload, coord) is entered
SubTiles ==
    /\ pc = "region_loop"
    /\ RegionLoopCondition
    /\ SubPayloadInRange
    /\ SubKind = TAG_rTIL
    /\ chunk_size' = SubSize
    /\ til' = [lo |-> region_data.lo + 8, hi |-> region_data.lo + 8 + SubSize]
    /\ pc' = "parse_data"
    /\ UNCHANGED <<input, ret, top, region, region_data, coord>>

\* ------------------------------------------------------------------------
\* Region::parse_data
\* ------------------------------------------------------------------------
\* the record the loop of parse_data is at
Record == DecodeRecord(region, Slice(data, til.lo, til.hi), coord, overflow_checks)

\* one iteration of the loop of parse_data on a record of one of the kinds
ParseRecord(kinds) ==
    /\ pc = "parse_data"
    /\ til.lo < til.hi
    /\ sequence_kind(data[til.lo + 1]) \in kinds
    /\ \E o \in {Record} :
           IF o.st = "ok"
           THEN /\ region' = o.region
                /\ coord' = o.coord
                /\ til' = [til EXCEPT !.lo = @ + o.consumed]
                /\ UNCHANGED <<input, pc, ret, top, region_data, chunk_size>>
           ELSE /\ Return(IF o.st = "err" THEN "Err" ELSE "Panic")
                /\ UNCHANGED <<top, regn>>

ParseEmptyRun == ParseRecord({0, 1})
ParsePresentRun == ParseRecord({2, 3})
ParseRowSkip == ParseRecord({4, 5})
ParseRowRepeat == ParseRecord({6, 7})

\* the slice is exhausted: Ok(coord), and the rTIL arm ends
ParseReturn ==
    /\ pc = "parse_data"
    /\ til.lo >= til.hi
    /\ SubAdvance(chunk_size, region, coord)

\* ------------------------------------------------------------------------
\* Region::parse_data as a function of the whole slice
\* ------------------------------------------------------------------------
\* at most n iterations of the while loop of parse_data on the slice d, from
\* the loop state s: st is "ok" while the loop goes on, and at is the number
\* of bytes of d consumed.  The record is decoded once (bound to o); a long
\* run of iterations is halved, the first half being computed (bound to m)
\* before the second runs, which keeps the evaluation shallow.
RECURSIVE ParseSteps(_, _, _, _)
ParseSteps(s, d, checks, n) ==
    IF n = 0 \/ s.st # "ok" \/ s.at >= Len(d) THEN s
    ELSE IF n = 1
         THEN CHOOSE out \in
                {IF o.st = "ok"
                 THEN [st |-> "ok", region |-> o.region, coord |-> o.coord,
                       at |-> s.at + o.consumed]
                 ELSE [s EXCEPT !.st = o.st] :
                    o \in {DecodeRecord(s.region, SubSeq(d, s.at + 1, Len(d)),
                                        s.coord, checks)}} : TRUE
    ELSE CHOOSE out \in {ParseSteps(m, d, checks, n - n \div 2) :
                            m \in {ParseSteps(s, d, checks, n \div 2)}} : TRUE

\* the while loop of parse_data on the slice d: st is "ok" for Ok(coord).
\* Every iteration consumes a byte at least, so Len(d) iterations end it.
parse_data(r, d, c, checks) ==
    LET out == ParseSteps([st |-> "ok", region |-> r, coord |-> c, at |-> 0],
                          d, checks, Len(d))
    IN  [st |-> out.st, region |-> out.region, coord |-> out.coord]

\* ------------------------------------------------------------------------
\* Map::load
\* ------------------------------------------------------------------------
\* ReadTile::x, ReadTile::y, ReadTile::id
ReadTile_x(value) == value % 4096
ReadTile_y(value) == (value \div 4096) % 4096
ReadTile_id(value) == (value \div 16777216) % 256

\* length of the array Map::tiles
TILES_LEN == 1024 * 1024

\* the map load starts from: no chunk, every tile 0, no tileset
EmptyMap == [elvl |-> <<>>, tiles |-> <<>>, tileset |-> "None"]

\* map.tiles[index]
TileAt(m, index) == IF index \in DOMAIN m.tiles THEN m.tiles[index] ELSE 0

\* load returns: Ok(m), or an error or a panic and no map
LoadReturns(value, m) ==
    /\ pc' = "loaded"
    /\ ret' = value
    /\ map' = m
    /\ UNCHANGED <<entry, tiledata_offset, tile_i, data, overflow_checks, top, regn>>

\* if tiledata_offset >= data.len() { return Err }, else the tile loop starts
TileDataAt(offset, m) ==
    IF offset >= Len(data)
    THEN LoadReturns("Err", m)
    ELSE /\ pc' = "tile_loop"
         /\ tiledata_offset' = offset
         /\ tile_i' = 0
         /\ map' = m
         /\ UNCHANGED <<entry, data, overflow_checks, ret, top, regn>>

\* Map::load up to the tile loop.  The tileset bitmap is decoded by the
\* image crate, which accepts the file (decoded) or rejects it.
Load ==
    /\ pc = "load"
    /\ IF Len(data) < 2 THEN LoadReturns("Ok", map)
       ELSE IF data[1] = 66 /\ data[2] = 77
            THEN IF Len(data) < 10 THEN LoadReturns("Err", map)
                 ELSE \E decoded \in BOOLEAN :
                        IF decoded
                        THEN TileDataAt(from_le_bytes(data, 2),
                                        [map EXCEPT !.tileset = "Some"])
                        ELSE LoadReturns("Err", map)
            ELSE TileDataAt(0, map)

\* tiledata_size = data.len() - tiledata_offset
tiledata_size == Len(data) - tiledata_offset

\* tile_count = tiledata_size / size_of::<u32>()
tile_count == tiledata_size \div 4

\* one iteration of the tile loop: map.tiles[index] = tile.id(), which
\* panics when index is not below the length of the array
LoadTile ==
    /\ pc = "tile_loop"
    /\ tile_i < tile_count
    /\ LET tile == from_le_bytes(data, tiledata_offset + tile_i * 4)
           index == ReadTile_y(tile) * 1024 + ReadTile_x(tile)
       IN  IF index >= TILES_LEN
           THEN LoadReturns("Panic", map)
           ELSE /\ map' = [map EXCEPT !.tiles = (index :> ReadTile_id(tile)) @@ @]
                /\ tile_i' = tile_i + 1
                /\ UNCHANGED <<entry, tiledata_offset, data, overflow_checks, pc,
                               ret, top, regn>>

\* the tile loop is over: elvl::elvl_read(&data) is called
LoadElvlRead ==
    /\ pc = "tile_loop"
    /\ tile_i >= tile_count
    /\ pc' = "elvl_read"
    /\ UNCHANGED <<caller, data, overflow_checks, ret, top, regn>>

\* map.elvl = elvl::elvl_read(&data)?; Ok(map)
LoadReturn ==
    /\ pc = "done"
    /\ entry = "load"
    /\ LoadReturns(ret, IF ret = "Ok" THEN [map EXCEPT !.elvl = chunks] ELSE map)

\* ------------------------------------------------------------------------
\* Input files
\* ------------------------------------------------------------------------
\* records decoded in one rTIL payload of the exhaustive family
MaxRecords == 3
\* records decoded after the cursor was moved to the last row a u16 holds
MaxFarRecords == 2
\* records in each rTIL payload of a region with several sub-chunks
MaxSplitRecords == 1

\* n as 4 little-endian bytes
LE32(n) == <<n % 256, (n \div 256) % 256, (n \div 65536) % 256,
             (n \div 16777216) % 256>>

Zeros(n) == [i \in 1..n |-> 0]

\* a chunk or sub-chunk: header, payload, padding to 4 bytes
ChunkBytes(tag, payload) ==
    LE32(tag) \o LE32(Len(payload)) \o payload
        \o Zeros(AlignUp4(Len(payload)) - Len(payload))

RECURSIVE Concat(_)
Concat(ss) == IF Len(ss) = 0 THEN <<>> ELSE Head(ss) \o Concat(Tail(ss))

\* a 'BM' file whose metadata container starts at offset 10: the metadata
\* header with the declared size, then the bytes of the chunks
FileBytes(declared, body) ==
    <<66, 77>> \o LE32(0) \o LE32(10)
        \o LE32(ELVL_MAGIC) \o LE32(declared) \o LE32(0) \o body

\* the same with a declared size that covers the header and the body
WholeFile(body) == FileBytes(METADATA_HEADER_SIZE + Len(body), body)

\* tags this decoder does not know: "XTRA" and "rAWP"
TAG_XTRA == from_le_bytes(<<88, 84, 82, 65>>, 0)
TAG_rAWP == from_le_bytes(<<114, 65, 87, 80>>, 0)

\* run records: empty 1022, present 5, row-skip 1, row-skip 1023,
\* row-repeat 2 (short), row-repeat 1 (long)
Records == {<<35, 253>>, <<68>>, <<128>>, <<163, 254>>, <<193>>, <<224, 0>>}

\* run records decoded on the last row: empty 1022, present 5, row-skip 1,
\* row-repeat 2
FarRecords == {<<35, 253>>, <<68>>, <<128>>, <<193>>}

\* first bytes of long-form records of kinds 1, 3, 5, 7, cut after 1 byte
Truncated == {<<32>>, <<96>>, <<160>>, <<224>>}

\* sequences of at most n of the records in R
RECURSIVE Bodies(_, _)
Bodies(R, n) ==
    IF n = 0 THEN {<<>>}
    ELSE LET B == Bodies(R, n - 1)
         IN  B \cup {b \o r : b \in B, r \in R}

\* 63 row-skips of 1024 rows and one of 1023: the cursor reaches (0, 65535)
FarPrefix == Concat([i \in 1..63 |-> <<163, 255>>]) \o <<163, 254>>

\* a file with one REGN chunk holding the sub-chunks subs
RegionFile(subs) == WholeFile(ChunkBytes(TAG_REGN, Concat(subs)))

\* one rTIL sub-chunk per payload
TileFile(payload) == RegionFile(<<ChunkBytes(TAG_rTIL, payload)>>)

\* every sequence of records, complete or cut in its last long-form record
TileFiles ==
    {TileFile(b) : b \in Bodies(Records, MaxRecords)}
    \cup {TileFile(b \o t) : b \in Bodies(Records, MaxRecords - 1), t \in Truncated}

\* records decoded on the last rows a u16 cursor can hold
FarFiles == {TileFile(FarPrefix \o b) : b \in Bodies(FarRecords, MaxFarRecords)}

\* the row-repeat example: row 4 = {(3,4), (9,4)}, cursor on row 5, run 2
RepeatExample == TileFile(<<131, 2, 64, 4, 64, 128, 193>>)

\* run records of the regions with several sub-chunks: empty 1022,
\* present 5, row-repeat 2
SplitRecords == {<<35, 253>>, <<68>>, <<193>>}

\* sub-chunks that may stand between two rTIL sub-chunks
Between == {<<>>, ChunkBytes(TAG_rBSE, <<>>), ChunkBytes(TAG_rAWP, <<1>>)}

\* the records of one region spread over two rTIL sub-chunks, and two
\* regions in a row
SplitFiles ==
    LET B == Bodies(SplitRecords, MaxSplitRecords)
    IN  {RegionFile(<<ChunkBytes(TAG_rTIL, b1), m, ChunkBytes(TAG_rTIL, b2),
                      ChunkBytes(TAG_rNWP, <<>>), ChunkBytes(TAG_rNAW, <<>>)>>) :
            b1 \in B, b2 \in B, m \in Between}
        \cup {WholeFile(ChunkBytes(TAG_REGN, ChunkBytes(TAG_rTIL, b1))
                        \o ChunkBytes(TAG_REGN, ChunkBytes(TAG_rTIL, b2))) :
                b1 \in B, b2 \in B}

\* an attribute, an unknown chunk and a region
FramedBody ==
    ChunkBytes(TAG_ATTR, <<65, 61, 66>>)
        \o ChunkBytes(TAG_XTRA, <<1, 2, 3>>)
        \o ChunkBytes(TAG_REGN, ChunkBytes(TAG_rNAM, <<114>>)
                                \o ChunkBytes(TAG_rNFL, <<7, 7>>)
                                \o ChunkBytes(TAG_rAWP, <<>>)
                                \o ChunkBytes(TAG_rTIL, <<68>>))
        \o ChunkBytes(TAG_XTRA, <<>>)

\* declared sizes: none, the header alone, one byte more, ..., too large
DeclaredSizes == {0, 12, 13, 24, 25, 36, 37, 96, 97, 104, 1000}

\* the framed file with every declared size, cut at every length
FramedFiles ==
    {SubSeq(FileBytes(t, FramedBody), 1, n) :
        t \in DeclaredSizes, n \in 0..(22 + Len(FramedBody))}

\* files without a container, malformed attributes and names
ProbeFiles ==
    {<<>>, <<66>>, <<1, 0, 0, 0>>, Tail(WholeFile(FramedBody)),
     <<66, 77>> \o LE32(0) \o LE32(0) \o Zeros(12),
     <<66, 77>> \o LE32(0) \o LE32(12) \o Zeros(14),
     <<66, 77>> \o LE32(0) \o LE32(11) \o Zeros(12),
     WholeFile(ChunkBytes(TAG_ATTR, <<65, 66>>)),
     WholeFile(ChunkBytes(TAG_ATTR, <<>>)),
     WholeFile(ChunkBytes(TAG_ATTR, <<61>>)),
     WholeFile(ChunkBytes(TAG_ATTR, <<65, 61, 61, 66>>)),
     WholeFile(ChunkBytes(TAG_ATTR, <<255, 61, 66>>)),
     WholeFile(ChunkBytes(TAG_ATTR, <<65, 61, 195>>)),
     RegionFile(<<ChunkBytes(TAG_rNAM, <<192, 128>>), ChunkBytes(TAG_rBSE, <<>>)>>),
     RegionFile(<<ChunkBytes(TAG_rNAM, <<195, 169>>), ChunkBytes(TAG_rBSE, <<>>)>>),
     RegionFile(<<SubSeq(ChunkBytes(TAG_rTIL, <<68, 0, 0, 0, 0>>), 1, 12)>>),
     RegionFile(<<SubSeq(ChunkBytes(TAG_rTIL, <<68, 0, 0, 0, 0>>), 1, 13)>>),
     RegionFile(<<SubSeq(ChunkBytes(TAG_rAWP, <<1, 2, 3, 4, 5>>), 1, 13)>>)}

\* tile-grid records decoded by one load
MaxTiles == 3

\* the 4 bytes of the tile-grid record (x, y, id)
TileBytesOf(x, y, id) == LE32(x + 4096 * y + 16777216 * id)

\* tile-grid records: two ids for the cell (0,0), the last cell of the grid,
\* the cell (0,1), x = 1024 on row 0, y = 1024, and x = y = 4095
TileRecords ==
    {TileBytesOf(0, 0, 1), TileBytesOf(0, 0, 2), TileBytesOf(1023, 1023, 3),
     TileBytesOf(0, 1, 5), TileBytesOf(1024, 0, 4), TileBytesOf(0, 1024, 6),
     TileBytesOf(4095, 4095, 7)}

\* a 'BM' file: the bitmap header's size field holds the offset of the tile
\* data, its reserved field the offset 10 of the metadata container; the
\* chunks are in body and the tile-grid records in tiles
BitmapFile(body, tiles) ==
    <<66, 77>> \o LE32(22 + Len(body)) \o LE32(10)
        \o LE32(ELVL_MAGIC) \o LE32(METADATA_HEADER_SIZE + Len(body)) \o LE32(0)
        \o body \o tiles

\* files for Map::load: tile data alone, with 0 to 3 bytes left over; 'BM'
\* files with a container and tile data; files too short, a tile data offset
\* at the end of the file, and tile data alone that holds a container header
LoadInputs ==
    {b \o t : b \in Bodies(TileRecords, MaxTiles) \ {<<>>},
              t \in {<<>>, <<9>>, <<9, 9, 9>>}}
    \cup {BitmapFile(body, t) :
            body \in {<<>>, FramedBody, ChunkBytes(TAG_ATTR, <<65, 66>>)},
            t \in Bodies(TileRecords, 1) \cup {<<9>>}}
    \cup {<<>>, <<66>>, <<7>>, <<66, 77>>, <<66, 77, 0, 0, 0, 0, 0, 0, 0>>,
          <<7, 7>>, <<66, 7, 7>>,
          <<66, 77>> \o LE32(10) \o LE32(0),
          <<1, 0, 0, 0, 0, 0>> \o LE32(12) \o <<0, 0>>
              \o LE32(ELVL_MAGIC) \o LE32(12) \o LE32(0),
          <<1, 0, 0, 0, 0, 0>> \o LE32(12) \o <<0, 0>> \o Zeros(12)}

\* second bytes of the records whose first byte takes every value
SecondBytes == {0, 129, 255}

\* after a row-skip of 1, a record with every first byte
RunFiles == {TileFile(<<128, b0, b1>>) : b0 \in 0..255, b1 \in SecondBytes}

\* cells of a presence set that is encoded and decoded again
MaxCells == 3

\* a run record of the short kind (0, 2, 4) or of the long kind after it
RunRecord(kind, run) ==
    IF run <= 32 THEN <<kind * 32 + (run - 1)>>
    ELSE <<(kind + 1) * 32 + (run - 1) \div 256, (run - 1) % 256>>

\* the columns of row y of the presence set S
Columns(S, y) == {c[1] : c \in {d \in S : d[2] = y}}

\* least element of a non-empty set of numbers
Least(N) == CHOOSE n \in N : \A m \in N : n <= m

\* reference encoder, row y from column x on: present-runs and empty-runs
\* in turn, the last of which ends the row
RECURSIVE EncodeRow(_, _, _)
EncodeRow(S, y, x) ==
    IF x >= GRID THEN <<>>
    ELSE LET cols == {c \in Columns(S, y) : c >= x}
         IN  IF cols = {} THEN RunRecord(0, GRID - x)
             ELSE IF x \in cols
                  THEN LET stop == Least({c \in (x + 1)..GRID : c \notin cols})
                       IN  RunRecord(2, stop - x) \o EncodeRow(S, y, stop)
             ELSE RunRecord(0, Least(cols) - x) \o EncodeRow(S, y, Least(cols))

\* reference encoder, from row y on: a row-skip over the empty rows before
\* the next row that has a cell, then that row
RECURSIVE EncodeRows(_, _)
EncodeRows(S, y) ==
    LET rows == {c[2] : c \in {d \in S : d[2] >= y}}
    IN  IF rows = {} THEN <<>>
        ELSE IF y \in rows THEN EncodeRow(S, y, 0) \o EncodeRows(S, y + 1)
        ELSE RunRecord(4, Least(rows) - y) \o EncodeRows(S, Least(rows))

\* the reference run-length encoder of a presence set, in row-major order
Encode(S) == EncodeRows(S, 0)

\* single cells the presence sets are made of
CellPool ==
    {<<0, 0>>, <<1, 0>>, <<40, 0>>, <<1023, 0>>, <<0, 1>>, <<5, 3>>,
     <<1023, 40>>, <<1023, 1023>>}

\* spans of cells: 41 cells of row 1, and the whole of row 2
CellBlocks == {{<<x, 1>> : x \in 10..50}, {<<x, 2>> : x \in 0..(GRID - 1)}}

\* the subsets of P of at most n elements
RECURSIVE SubsetsUpTo(_, _)
SubsetsUpTo(P, n) ==
    IF n = 0 THEN {{}}
    ELSE LET Q == SubsetsUpTo(P, n - 1)
         IN  Q \cup {q \cup {c} : q \in Q, c \in P}

\* presence sets: up to MaxCells cells of the pool, and a span with up to
\* MaxCells - 2 cells of the pool
PresenceSets ==
    SubsetsUpTo(CellPool, MaxCells)
        \cup {b \cup q : b \in CellBlocks, q \in SubsetsUpTo(CellPool, MaxCells - 2)}

\* each presence set with the file that holds its encoding in one rTIL
\* sub-chunk
RoundTrip == {<<TileFile(Encode(S)), S>> : S \in PresenceSets}

RoundTripFiles == {p[1] : p \in RoundTrip}

\* present-runs: 5 (short), 10 and 1024 (long)
PresentRecords == {<<68>>, <<96, 9>>, <<99, 255>>}

\* two present-runs from (0, 0), and from (1019, 0), where a run of 5 ends
\* the row
PresentPairs ==
    {TileFile(a \o b) : a \in PresentRecords, b \in PresentRecords}
    \cup {TileFile(<<35, 250>> \o a \o b) : a \in {<<68>>}, b \in PresentRecords}

\* a REGN chunk with a payload of 2 bytes, the file cut after the payload,
\* before the padding
UnpaddedRegion ==
    SubSeq(WholeFile(ChunkBytes(TAG_REGN, <<1, 2>>)), 1, 22 + 8 + 2)

Inputs == RunFiles \cup RoundTripFiles \cup TileFiles \cup FarFiles \cup {RepeatExample} \cup SplitFiles
            \cup FramedFiles \cup ProbeFiles \cup PresentPairs \cup {UnpaddedRegion}

\* ------------------------------------------------------------------------
\* Specification
\* ------------------------------------------------------------------------
Init ==
    /\ \/ entry = "elvl_read" /\ data \in Inputs
       \/ entry = "load" /\ data \in LoadInputs
    /\ pc = entry
    /\ map = EmptyMap
    /\ tiledata_offset = 0
    /\ tile_i = 0
    /\ overflow_checks \in BOOLEAN
    /\ ret = "none"
    /\ chunks = <<>>
    /\ total_size = 0
    /\ pos = 0
    /\ consumed = 0
    /\ chunk_header = NoHeader
    /\ region = EmptyRegion
    /\ region_data = NoSlice
    /\ chunk_size = 0
    /\ coord = <<0, 0>>
    /\ til = NoSlice

Next ==
    \/ ElvlReadEnter
    \/ ChunkLoopExit
    \/ ChunkPayloadOutOfRange
    \/ ChunkAttribute
    \/ ChunkOther
    \/ ChunkRegion
    \/ RegionLoopExit
    \/ SubPayloadOutOfRange
    \/ SubName
    \/ SubFlag
    \/ SubIgnored
    \/ SubTiles
    \/ ParseEmptyRun
    \/ ParsePresentRun
    \/ ParseRowSkip
    \/ ParseRowRepeat
    \/ ParseReturn
    \/ Load
    \/ LoadTile
    \/ LoadElvlRead
    \/ LoadReturn

Spec == Init /\ [][Next]_vars

\* ------------------------------------------------------------------------
\* Vocabulary of the properties
\* ------------------------------------------------------------------------
\* number of cells of the grid
Cells == GRID * GRID

\* parse_data is at a record of one of the kinds, all of whose bytes are in
\* the slice
AtRecord(kinds) ==
    /\ pc = "parse_data"
    /\ til.lo < til.hi
    /\ sequence_kind(data[til.lo + 1]) \in kinds
    /\ sequence_kind(data[til.lo + 1]) % 2 = 1 => til.hi - til.lo >= 2

\* run length of the record parse_data is at
RunHere ==
    IF sequence_kind(data[til.lo + 1]) % 2 = 1
    THEN LongRun(data[til.lo + 1], data[til.lo + 2])
    ELSE ShortRun(data[til.lo + 1])

\* the i-th cell after (x, y) in row-major order, for x + i < 2 * GRID
RowMajor(x, y, i) ==
    IF x + i < GRID THEN <<x + i, y>> ELSE <<x + i - GRID, y + 1>>

\* flattened index of a cell
IndexOf(cell) == cell[2] * GRID + cell[1]

\* the regions elvl_read holds: the one being decoded and those in chunks
Regions ==
    {region} \cup {chunks[i].region :
                    i \in {j \in 1..Len(chunks) : chunks[j].type = "Region"}}

\* ------------------------------------------------------------------------
\* C1
\* ------------------------------------------------------------------------
\* C1: every cell stored in the tiles of a region has a flattened index below
\* 1024 * 1024, so every pair of get_tiles has x < 1024 and y < 1024.
C1_CellsInGrid ==
    \A r \in Regions :
        /\ \A index \in r.tiles : index < Cells
        /\ \A cell \in get_tiles(r) : cell[1] < GRID /\ cell[2] < GRID

\* ------------------------------------------------------------------------
\* C2
\* ------------------------------------------------------------------------
\* C2: a long-form record (kind 1, 3, 5 or 7) met with exactly 1 byte left in
\* the slice makes parse_data return an error value.
C2_TruncatedIsErr ==
    [][(/\ pc = "parse_data"
        /\ til.hi - til.lo = 1
        /\ sequence_kind(data[til.lo + 1]) \in {1, 3, 5, 7})
       => ret' = "Err"]_vars

\* ------------------------------------------------------------------------
\* C3
\* ------------------------------------------------------------------------
\* C3: a row-repeat record decoded with the cursor on row 0 sets no tile,
\* leaves tile_count alone and leaves the cursor at (0, run).
C3_RepeatOnRowZero ==
    [][(AtRecord({6, 7}) /\ coord[2] = 0)
       => /\ ret' = "none"
          /\ region' = region
          /\ coord' = <<0, RunHere>>]_vars

\* ------------------------------------------------------------------------
\* C4
\* ------------------------------------------------------------------------
\* C4: in the chunk loop, when fewer than 8 bytes remain or the header
\* declares more payload than remains, elvl_read returns Ok with the chunks
\* decoded so far.
C4_TruncatedChunkIsEnd ==
    [][(/\ pc = "chunk_loop"
        /\ \/ Remaining < CHUNK_HEADER_SIZE
           \/ CHUNK_HEADER_SIZE + HeaderAt(pos).size > Remaining)
       => ret' = "Ok" /\ chunks' = chunks]_vars

\* ------------------------------------------------------------------------
\* C5
\* ------------------------------------------------------------------------
\* bytes between the end of the metadata header and the slice of the loop
AfterHeader == pos - (metadata_offset(data) + METADATA_HEADER_SIZE)

\* a whole chunk (header, payload and padding) lies at the loop's position
CompleteChunkHere ==
    /\ pc = "chunk_loop"
    /\ Remaining >= CHUNK_HEADER_SIZE
    /\ TotalChunkSize(HeaderAt(pos)) <= Remaining

\* C5 as stated: a complete chunk that starts k bytes after the metadata
\* header is decoded if and only if k < total_size.
C5_CountFromHeaderEnd ==
    [][CompleteChunkHere => (ret' # "Ok" <=> AfterHeader < total_size)]_vars

\* C5 amended: a complete chunk that starts k bytes after the metadata header
\* is processed by the chunk loop if and only if 12 + k < total_size: the
\* running count includes the 12 bytes of the metadata header.
C5_CountFromHeaderStart ==
    [][CompleteChunkHere
       => (ret' # "Ok" <=> METADATA_HEADER_SIZE + AfterHeader < total_size)]_vars

\* the loop has decoded a chunk and then stopped at a complete chunk that
\* starts before total_size bytes after the header, but not 12 bytes before
C5_Witness ==
    /\ pc = "done"
    /\ ret = "Ok"
    /\ Len(chunks) >= 1
    /\ Remaining >= CHUNK_HEADER_SIZE
    /\ TotalChunkSize(HeaderAt(pos)) <= Remaining
    /\ AfterHeader < total_size
    /\ METADATA_HEADER_SIZE + AfterHeader >= total_size

\* ------------------------------------------------------------------------
\* C6
\* ------------------------------------------------------------------------
\* C6: a present-run record of length run decoded at (x, y), x < 1024, marks
\* the run cells that follow (x, y) in row-major order, wrapping from column
\* 1023 to column 0 of the next row, and no other cell.
C6_PresentRunCells ==
    [][(AtRecord({2, 3}) /\ coord[1] < GRID /\ ret' = "none")
       => region'.tiles = region.tiles \cup
            {IndexOf(RowMajor(coord[1], coord[2], i)) : i \in 0..(RunHere - 1)}]_vars

\* a present-run of 5 decoded at (1022, 0) marked (1022,0), (1023,0), (0,1),
\* (1,1), (2,1)
C6_Witness ==
    /\ pc = "parse_data"
    /\ til.lo > region_data.lo + 8
    /\ data[til.lo] = 68
    /\ coord = <<0, 1>>
    /\ get_tiles(region) = {<<1022, 0>>, <<1023, 0>>, <<0, 1>>, <<1, 1>>, <<2, 1>>}

\* ------------------------------------------------------------------------
\* C7
\* ------------------------------------------------------------------------
\* C7: a record of kind 0..3 with run length run decoded at (x, y) leaves the
\* cursor at (x + run, y) when x + run < 1024 and at (0, y + 1) otherwise.
C7_AdvanceCursor ==
    [][AtRecord({0, 1, 2, 3})
       => /\ ret' = "none"
          /\ coord' = IF coord[1] + RunHere < GRID
                      THEN <<coord[1] + RunHere, coord[2]>>
                      ELSE <<0, coord[2] + 1>>]_vars

\* ------------------------------------------------------------------------
\* C8
\* ------------------------------------------------------------------------
\* the cells of row y of a tile set, as columns
RowOf(tiles, y) == {index % GRID : index \in {t \in tiles : t \div GRID = y}}

\* C8: a row-repeat record of length run decoded on row y >= 1 marks, for
\* each i < run, the cells (x, y + i) with (x, y - 1) present before the
\* record, marks no other cell, and leaves the cursor at (0, y + run).
C8_RowRepeat ==
    [][(AtRecord({6, 7}) /\ coord[2] >= 1)
       => /\ ret' = "none"
          /\ region'.tiles = region.tiles \cup
                {IndexOf(<<x, coord[2] + i>>) :
                    x \in RowOf(region.tiles, coord[2] - 1),
                    i \in 0..(RunHere - 1)}
          /\ coord' = <<0, coord[2] + RunHere>>]_vars

\* ------------------------------------------------------------------------
\* C9
\* ------------------------------------------------------------------------
\* C9: tile_count of a region is the number of distinct cells in its tiles;
\* it never decreases, and a step that adds no cell leaves it unchanged.
C9_TileCount ==
    /\ [](\A r \in Regions : r.tile_count = Cardinality(r.tiles))
    /\ [][(pc \in {"region_loop", "parse_data"})
          => (/\ region'.tile_count >= region.tile_count
              /\ (region'.tiles = region.tiles)
                    => (region'.tile_count = region.tile_count))]_vars

\* two present-runs of 5 overlapped on (0,1), (1,1), (2,1): 7 cells, count 7
C9_Witness ==
    /\ pc = "parse_data"
    /\ coord = <<5, 1>>
    /\ data[til.lo] = 68
    /\ region.tiles = 1022..1028
    /\ region.tile_count = 7

\* ------------------------------------------------------------------------
\* C10
\* ------------------------------------------------------------------------
\* the payloads of the rTIL sub-chunks that lie in [lo, hi), concatenated
RECURSIVE TileBytes(_, _)
TileBytes(lo, hi) ==
    IF lo >= hi THEN <<>>
    ELSE LET size == from_le_bytes(data, lo + 4)
         IN  (IF from_le_bytes(data, lo) = TAG_rTIL
              THEN Slice(data, lo + 8, lo + 8 + size) ELSE <<>>)
             \o TileBytes(lo + 8 + AlignUp4(size), hi)

\* number of rTIL sub-chunks that lie in [lo, hi)
RECURSIVE TileChunks(_, _)
TileChunks(lo, hi) ==
    IF lo >= hi THEN 0
    ELSE (IF from_le_bytes(data, lo) = TAG_rTIL THEN 1 ELSE 0)
         + TileChunks(lo + 8 + AlignUp4(from_le_bytes(data, lo + 4)), hi)

\* start of the payload of the REGN chunk being decoded
RegionStart == pos + CHUNK_HEADER_SIZE

\* C10: between two sub-chunks of a REGN chunk, the tiles, tile_count and
\* cursor are those of decoding the concatenation of the chunk's rTIL
\* payloads so far in one slice from (0,0) on an empty region.
C10_CursorThreaded ==
    pc = "region_loop" =>
        \A o \in {parse_data(EmptyRegion, TileBytes(RegionStart, region_data.lo),
                             <<0, 0>>, overflow_checks)} :
            /\ o.st = "ok"
            /\ region.tiles = o.region.tiles
            /\ region.tile_count = o.region.tile_count
            /\ coord = o.coord

\* an empty-run of 1022 and a present-run of 5 decoded from two rTIL
\* sub-chunks with an rBSE sub-chunk in between, in a second region's turn or
\* the first
C10_Witness ==
    /\ pc = "region_loop"
    /\ TileChunks(RegionStart, region_data.lo) = 2
    /\ region.flags = Base
    /\ region.tiles = 1022..1026
    /\ coord = <<0, 1>>

\* ------------------------------------------------------------------------
\* C11
\* ------------------------------------------------------------------------
\* [lo, hi) is a sequence of complete sub-chunks: each has its 8-byte header,
\* its payload and the padding to 4 bytes
RECURSIVE CompleteSubChunks(_, _)
CompleteSubChunks(lo, hi) ==
    \/ lo = hi
    \/ /\ lo + REGION_CHUNK_HEADER_SIZE <= hi
       /\ lo + SubTotalChunkSize(from_le_bytes(data, lo + 4)) <= hi
       /\ CompleteSubChunks(lo + SubTotalChunkSize(from_le_bytes(data, lo + 4)), hi)

\* the tags of the sub-chunks that lie in [lo, hi)
RECURSIVE SubTags(_, _)
SubTags(lo, hi) ==
    IF lo >= hi THEN {}
    ELSE {from_le_bytes(data, lo)}
         \cup SubTags(lo + SubTotalChunkSize(from_le_bytes(data, lo + 4)), hi)

\* the bit is set in flags
HasBit(flags, bit) == (flags \div bit) % 2 = 1

\* the REGN arm has left its sub-chunk loop: the region is complete
RegionDecoded == pc = "region_loop" /\ ~RegionLoopCondition

\* C11: when a REGN chunk whose payload is a sequence of complete sub-chunks
\* has been decoded, each of the bits Base, NoAntiwarp, NoWeapons, NoFlags is
\* set in Region.flags exactly when an rBSE, rNAW, rNWP, rNFL sub-chunk occurs
\* in the payload, and no other bit is set; a sub-chunk with any other tag
\* than these, rNAM and rTIL leaves the region as it was.
C11_FlagsFromTags ==
    /\ [](/\ RegionDecoded
          /\ CompleteSubChunks(RegionStart, region_data.hi)
          => LET tags == SubTags(RegionStart, region_data.hi)
             IN  /\ HasBit(region.flags, 1) <=> TAG_rBSE \in tags
                 /\ HasBit(region.flags, 2) <=> TAG_rNAW \in tags
                 /\ HasBit(region.flags, 4) <=> TAG_rNWP \in tags
                 /\ HasBit(region.flags, 8) <=> TAG_rNFL \in tags
                 /\ region.flags < 16)
    /\ [][(/\ pc = "region_loop"
           /\ RegionLoopCondition
           /\ SubPayloadInRange
           /\ SubKind \notin {TAG_rNAM, TAG_rTIL, TAG_rBSE, TAG_rNAW,
                              TAG_rNWP, TAG_rNFL}
           /\ ret' = "none")
          => region' = region]_vars

\* ------------------------------------------------------------------------
\* C12
\* ------------------------------------------------------------------------
\* the sub-chunk loop is at a sub-chunk of one of the tags, whose payload
\* lies in the REGN payload
AtSubChunk(tags) ==
    /\ pc = "region_loop"
    /\ RegionLoopCondition
    /\ SubPayloadInRange
    /\ SubKind \in tags

\* C12: an rNAM sub-chunk whose payload is not valid UTF-8 makes elvl_read
\* return an error value; one whose payload is valid UTF-8 makes Region.name
\* the payload bytes.
C12_NameIsUtf8 ==
    [][AtSubChunk({TAG_rNAM})
       => IF from_utf8_ok(SubPayload)
          THEN ret' = "none" => region'.name = SubPayload
          ELSE ret' = "Err"]_vars

\* ------------------------------------------------------------------------
\* C13
\* ------------------------------------------------------------------------
\* the bytes that occur in a sequence
Range(s) == {s[i] : i \in DOMAIN s}

\* the chunk loop is at a chunk of the tag, whose payload lies in the file
AtChunk(tag) ==
    /\ pc = "chunk_loop"
    /\ ChunkLoopCondition
    /\ PayloadInRange(HeaderAt(pos))
    /\ HeaderAt(pos).kind = tag

\* the longest prefix of p without '='
KeyOf(p) ==
    SubSeq(p, 1, Cardinality({i \in 1..Len(p) : \A j \in 1..i : p[j] # 61}))

\* what follows the '=' after KeyOf(p)
ValueOf(p) == SubSeq(p, Len(KeyOf(p)) + 2, Len(p))

\* C13: an ATTR chunk whose payload has no '=' byte makes elvl_read return an
\* error; so does one whose key or value is not valid UTF-8; otherwise the
\* chunk pushed is the attribute whose key is the bytes before the first '='
\* and whose value is all the bytes after it.
C13_AttributeSplit ==
    [][AtChunk(TAG_ATTR)
       => LET p == Payload(HeaderAt(pos))
          IN  IF 61 \notin Range(p) THEN ret' = "Err"
              ELSE IF ~from_utf8_ok(KeyOf(p)) \/ ~from_utf8_ok(ValueOf(p))
                   THEN ret' = "Err"
              ELSE ret' = "none"
                   => /\ chunks' = Append(chunks, [type |-> "Attribute",
                                                   key |-> KeyOf(p),
                                                   value |-> ValueOf(p)])
                      /\ KeyOf(p) \o <<61>> \o ValueOf(p) = p]_vars

\* the payload "A==B" gave the key "A" and the value "=B"
C13_Witness ==
    /\ pc = "done"
    /\ ret = "Ok"
    /\ chunks = <<[type |-> "Attribute", key |-> <<65>>, value |-> <<61, 66>>]>>

\* ------------------------------------------------------------------------
\* C14
\* ------------------------------------------------------------------------
\* offset of the first chunk of the container
ContainerStart == metadata_offset(data) + METADATA_HEADER_SIZE

\* offsets of the chunks that lie in [lo, hi), in file order
RECURSIVE ChunkStarts(_, _)
ChunkStarts(lo, hi) ==
    IF lo >= hi THEN <<>>
    ELSE <<lo>> \o ChunkStarts(lo + CHUNK_HEADER_SIZE
                                  + AlignUp4(from_le_bytes(data, lo + 4)), hi)

\* the entry c of the chunk vector is the chunk at offset off of the file
ChunkMatches(c, off) ==
    LET tag == from_le_bytes(data, off)
        size == from_le_bytes(data, off + 4)
    IN  IF tag = TAG_ATTR THEN c.type = "Attribute"
        ELSE IF tag = TAG_REGN THEN c.type = "Region"
        ELSE c = [type |-> "Other", kind |-> tag,
                  payload |-> [i \in 1..size |-> data[off + CHUNK_HEADER_SIZE + i]]]

\* C14: the chunk vector has one entry per chunk decoded, in file order, and
\* the entry of a chunk whose tag is neither ATTR nor REGN is Other(tag,
\* payload) with exactly the payload_size bytes that follow the header.
C14_ChunksInFileOrder ==
    (\/ pc \in {"chunk_loop", "region_loop", "parse_data"}
     \/ pc = "done" /\ ret = "Ok" /\ pos > 0)
    => LET s == ChunkStarts(ContainerStart, pos)
       IN  /\ Len(chunks) = Len(s)
           /\ \A i \in 1..Len(s) : ChunkMatches(chunks[i], s[i])

\* the four chunks of the framed file were returned, the second being
\* Other("XTRA", [1, 2, 3]) without its padding byte and the fourth
\* Other("XTRA", [])
C14_Witness ==
    /\ pc = "done"
    /\ ret = "Ok"
    /\ Len(chunks) = 4
    /\ chunks[1].type = "Attribute"
    /\ chunks[2] = [type |-> "Other", kind |-> TAG_XTRA, payload |-> <<1, 2, 3>>]
    /\ chunks[3].type = "Region"
    /\ chunks[4] = [type |-> "Other", kind |-> TAG_XTRA, payload |-> <<>>]

\* ------------------------------------------------------------------------
\* C15
\* ------------------------------------------------------------------------
\* the k-th tile-grid record of the tile data that starts at offset off
TileRecord(off, k) == from_le_bytes(data, off + 4 * k)

\* the decoded coordinates of a tile-grid record
TileCell(value) == <<ReadTile_x(value), ReadTile_y(value)>>

\* the tile loop is at a record
AtTile == pc = "tile_loop" /\ tile_i < tile_count

\* the cells of the grid that map.tiles holds a value for
Written(m) == {<<index % GRID, index \div GRID>> : index \in DOMAIN m.tiles}

\* C15: a tile-grid record with x >= 1024 or y >= 1024 makes Map::load return
\* an error, and modifies no cell of the grid.
C15_TileOutOfBounds ==
    [][(/\ AtTile
        /\ \/ ReadTile_x(TileRecord(tiledata_offset, tile_i)) >= GRID
           \/ ReadTile_y(TileRecord(tiledata_offset, tile_i)) >= GRID)
       => /\ ret' = "Err"
          /\ \A cell \in Written(map) \cup Written(map') :
                TileAt(map', IndexOf(cell)) = TileAt(map, IndexOf(cell))]_vars

\* ------------------------------------------------------------------------
\* C16
\* ------------------------------------------------------------------------
\* the records of the tile data at offset off whose coordinates are cell
RecordsAt(off, cell) ==
    {k \in 0..((Len(data) - off) \div 4 - 1) : TileCell(TileRecord(off, k)) = cell}

\* the cells of the tile-grid records of the tile data at offset off
Addressed(off) ==
    {TileCell(TileRecord(off, k)) : k \in 0..((Len(data) - off) \div 4 - 1)}

\* id of the last record of the tile data at offset off whose coordinates
\* are cell, 0 if there is none
LastId(off, cell) ==
    IF RecordsAt(off, cell) = {} THEN 0
    ELSE ReadTile_id(TileRecord(off,
            CHOOSE k \in RecordsAt(off, cell) :
                \A j \in RecordsAt(off, cell) : j <= k))

\* a cell of the 1024 x 1024 grid
InGrid(cell) == cell[1] < GRID /\ cell[2] < GRID

\* C16: after a successful Map::load, every cell of the grid holds the id of
\* the last tile-grid record whose decoded coordinates are that cell, and 0
\* if there is none (checked for the cells written and the cells addressed:
\* every other cell is 0 and has no record); and a record addressed to one
\* cell changes no other cell.
C16_LastWriteWins ==
    /\ [](pc = "loaded" /\ ret = "Ok"
          => \A cell \in Written(map)
                    \cup {c \in Addressed(tiledata_offset) : InGrid(c)} :
                TileAt(map, IndexOf(cell)) = LastId(tiledata_offset, cell))
    /\ [][AtTile
          => \A cell \in (Written(map) \cup Written(map'))
                    \ {TileCell(TileRecord(tiledata_offset, tile_i))} :
                TileAt(map', IndexOf(cell)) = TileAt(map, IndexOf(cell))]_vars

\* ------------------------------------------------------------------------
\* C17
\* ------------------------------------------------------------------------
\* the file starts with 'B', 'M' and has the 10 bytes elvl_read asks for
BitmapHeader == Len(data) >= 10 /\ data[1] = 66 /\ data[2] = 77

\* the bytes 'e', 'l', 'v', 'l' stand at offset off
MagicAt(off) ==
    <<data[off + 1], data[off + 2], data[off + 3], data[off + 4]>>
        = <<101, 108, 118, 108>>

\* C17: for a 'BM' file, when the metadata offset is 0, or offset + 12
\* exceeds the length of the file, or the 4 bytes at the offset are not
\* "elvl", elvl_read returns Ok with no chunk.
C17_NoContainerIsOk ==
    [][(/\ pc = "elvl_read"
        /\ BitmapHeader
        /\ \/ from_le_bytes(data, 6) = 0
           \/ from_le_bytes(data, 6) + 12 > Len(data)
           \/ ~MagicAt(from_le_bytes(data, 6)))
       => ret' = "Ok" /\ chunks' = <<>>]_vars

\* elvl_read returned Ok with no chunk for a 'BM' file whose metadata offset
\* points at 12 bytes that do not start with "elvl"
C17_Witness ==
    /\ pc = "done"
    /\ ret = "Ok"
    /\ chunks = <<>>
    /\ BitmapHeader
    /\ from_le_bytes(data, 6) # 0
    /\ from_le_bytes(data, 6) + 12 <= Len(data)
    /\ ~MagicAt(from_le_bytes(data, 6))

\* ------------------------------------------------------------------------
\* C18
\* ------------------------------------------------------------------------
\* C18: Map::load of an input shorter than 2 bytes returns the empty map; of
\* an input of at least 2 bytes that does not start with 'B', 'M' it returns
\* a map without tileset and without chunks whose tiles are those of the
\* tile-grid records decoded from offset 0.
C18_TileDataOnly ==
    (entry = "load" /\ pc = "loaded")
    => /\ Len(data) < 2 => ret = "Ok" /\ map = EmptyMap
       /\ (Len(data) >= 2 /\ ~(data[1] = 66 /\ data[2] = 77))
          => /\ ret = "Ok"
             /\ map.tileset = "None"
             /\ map.elvl = <<>>
             /\ \A cell \in Written(map) \cup {c \in Addressed(0) : InGrid(c)} :
                    TileAt(map, IndexOf(cell)) = LastId(0, cell)

\* ------------------------------------------------------------------------
\* C19
\* ------------------------------------------------------------------------
\* C19: a record whose kind (first byte / 32) is 0, 2, 4 or 6 has the run
\* length (first byte - 32 * kind) + 1, in 1..32, and consumes 1 byte; a
\* record of kind 1, 3, 5 or 7 has the run length 256 * (first byte mod 4) +
\* second byte + 1, in 1..1024, and consumes 2 bytes.  The run length is the
\* one the record moves the cursor by.
C19_RunLengths ==
    [][(pc = "parse_data" /\ til.lo < til.hi /\ ret' = "none")
       => LET b0 == data[til.lo + 1]
              kind == b0 \div 32
              short == kind \in {0, 2, 4, 6}
              run == IF short THEN (b0 - 32 * kind) + 1
                     ELSE (256 * (b0 % 4) + data[til.lo + 2]) + 1
          IN  /\ IF short
                 THEN run \in 1..32 /\ til'.lo = til.lo + 1
                 ELSE run \in 1..1024 /\ til'.lo = til.lo + 2
              /\ IF kind \in {0, 1, 2, 3}
                 THEN coord' = IF coord[1] + run < GRID
                               THEN <<coord[1] + run, coord[2]>>
                               ELSE <<0, (coord[2] + 1) % U16>>
                 ELSE coord' = <<0, (coord[2] + run) % U16>>]_vars

\* after a row-skip of 1, the long record 23 FF (empty-run of 1024) was
\* decoded: 2 bytes consumed, and the cursor went from (0, 1) to (0, 2)
C19_Witness ==
    /\ pc = "parse_data"
    /\ til.lo = til.hi
    /\ til.lo = region_data.lo + 8 + 3
    /\ Slice(data, til.lo - 3, til.lo) = <<128, 35, 255>>
    /\ coord = <<0, 2>>

\* ------------------------------------------------------------------------
\* C20
\* ------------------------------------------------------------------------
\* C20: when the file is the encoding of a presence set by the reference
\* encoder, decoded from (0,0) on an empty region, elvl_read returns one
\* region whose cells are exactly those of the set and whose tile_count is
\* the size of the set.
C20_RoundTrip ==
    (pc = "done" /\ entry = "elvl_read")
    => \A p \in RoundTrip :
          data = p[1]
          => /\ ret = "Ok"
             /\ Len(chunks) = 1
             /\ chunks[1].type = "Region"
             /\ get_tiles(chunks[1].region) = p[2]
             /\ chunks[1].region.tiles = {IndexOf(c) : c \in p[2]}
             /\ chunks[1].region.tile_count = Cardinality(p[2])

\* the set {(1023,0), (0,1), (5,3)} came back from its encoding: a long
\* empty-run and a present-run that ends row 0, a present-run and an
\* empty-run to the end of row 1, a row-skip of row 2, and the runs of row 3
C20_Witness ==
    /\ pc = "done"
    /\ ret = "Ok"
    /\ data = TileFile(Encode({<<1023, 0>>, <<0, 1>>, <<5, 3>>}))
    /\ Len(chunks) = 1
    /\ get_tiles(chunks[1].region) = {<<1023, 0>>, <<0, 1>>, <<5, 3>>}

\* ------------------------------------------------------------------------
\* C21
\* ------------------------------------------------------------------------
\* C21: every iteration of the loop of parse_data either returns an error
\* value or consumes 1 or 2 bytes and no more than remain in the slice, the
\* kind of its record being one of 0..7; it never panics, so decoding ends
\* with Ok(cursor) or an error once the slice is exhausted.
C21_ParseProgress ==
    [][(pc = "parse_data" /\ til.lo < til.hi)
       => /\ sequence_kind(data[til.lo + 1]) \in 0..7
          /\ ret' \in {"none", "Err"}
          /\ ret' = "none"
             => /\ pc' = "parse_data"
                /\ til'.hi = til.hi
                /\ til'.lo - til.lo \in {1, 2}
                /\ til'.lo <= til.hi]_vars

\* ------------------------------------------------------------------------
\* C22
\* ------------------------------------------------------------------------
\* C22: an empty-run or row-skip record leaves the region (tiles,
\* tile_count, name, flags) unchanged, and a row-skip record of length run
\* decoded at (x, y) leaves the cursor at (0, y + run).
C22_EmptyAndSkipFrame ==
    [][AtRecord({0, 1, 4, 5})
       => /\ ret' = "none"
          /\ region' = region
          /\ sequence_kind(data[til.lo + 1]) \in {4, 5}
             => coord' = <<0, coord[2] + RunHere>>]_vars

\* ------------------------------------------------------------------------
\* C23
\* ------------------------------------------------------------------------
\* the advance d past a chunk of payload size s: a multiple of 4, at least
\* 8 + s and less than 8 + s + 4
PaddedAdvance(d, s) == d % 4 = 0 /\ d >= 8 + s /\ d < 8 + s + 4

\* C23: after a top-level chunk or a region sub-chunk of payload size s is
\* consumed, the next header is read 8 + (s rounded up to a multiple of 4)
\* bytes after the current one: the advance is a multiple of 4, at least
\* 8 + s and less than 8 + s + 4, and the payload kept is the s bytes after
\* the header, without the padding.
C23_PaddedAdvance ==
    [][/\ (pc \in {"chunk_loop", "region_loop"} /\ Len(chunks') = Len(chunks) + 1)
          => /\ PaddedAdvance(pos' - pos, from_le_bytes(data, pos + 4))
             /\ chunks'[Len(chunks')].type = "Other"
                => chunks'[Len(chunks')].payload
                     = [i \in 1..from_le_bytes(data, pos + 4) |-> data[pos + 8 + i]]
       /\ (pc \in {"region_loop", "parse_data"} /\ pc' = "region_loop"
           /\ region_data' # region_data)
          => /\ region_data'.hi = region_data.hi
             /\ PaddedAdvance(region_data'.lo - region_data.lo,
                              from_le_bytes(data, region_data.lo + 4))]_vars

\* the first chunk, of payload size 3, was consumed and the loop stands 12
\* bytes after its header
C23_Witness ==
    /\ pc = "chunk_loop"
    /\ Len(chunks) = 1
    /\ from_le_bytes(data, ContainerStart + 4) = 3
    /\ pos = ContainerStart + 12

\* ------------------------------------------------------------------------
\* C24
\* ------------------------------------------------------------------------
\* offset of the tile data of the file
TileOffset == IF data[1] = 66 /\ data[2] = 77 THEN from_le_bytes(data, 2) ELSE 0

\* the tile data of the file holds no whole record
NoTileRecord ==
    /\ Len(data) >= 2
    /\ (data[1] = 66 /\ data[2] = 77) => Len(data) >= 10
    /\ TileOffset <= Len(data)
    /\ (Len(data) - TileOffset) \div 4 = 0

\* C24: Map::load applies exactly floor((len - tile_offset) / 4) tile-grid
\* records, in file order, ignoring 1 to 3 trailing bytes; tile data holding
\* no record (a tile offset equal to the length of a 'BM' file included)
\* loads successfully with an all-zero grid.
C24_TileRecordCount ==
    /\ [][pc = "tile_loop"
          => IF tile_i < (Len(data) - tiledata_offset) \div 4
             THEN ret' = "none"
                  => /\ pc' = "tile_loop"
                     /\ tile_i' = tile_i + 1
                     /\ TileAt(map', IndexOf(TileCell(TileRecord(tiledata_offset, tile_i))))
                          = ReadTile_id(TileRecord(tiledata_offset, tile_i))
             ELSE /\ tile_i = (Len(data) - tiledata_offset) \div 4
                  /\ pc' = "elvl_read"
                  /\ map' = map]_vars
    /\ [][(/\ pc = "load"
           /\ NoTileRecord
           /\ (data[1] = 66 /\ data[2] = 77) => map'.tileset = "Some")
          => /\ ret' = "none"
             /\ pc' = "tile_loop"
             /\ map'.tiles = <<>>]_vars
    /\ [](pc = "loaded" /\ ret = "Ok" /\ NoTileRecord => map.tiles = <<>>)

\* ------------------------------------------------------------------------
\* C25
\* ------------------------------------------------------------------------
\* the bytes at offset off of the file, below the offset hi, are a whole
\* present-run record
PresentAt(off, hi) ==
    /\ off < hi
    /\ sequence_kind(data[off + 1]) \in {2, 3}
    /\ sequence_kind(data[off + 1]) = 3 => off + 2 <= hi

\* bytes and run length of the present-run record at offset off
PresentSize(off) == IF sequence_kind(data[off + 1]) = 3 THEN 2 ELSE 1
PresentRun(off) ==
    IF sequence_kind(data[off + 1]) = 3
    THEN ((data[off + 1] % 4) * 256) + data[off + 2] + 1
    ELSE (data[off + 1] % 32) + 1

\* the offsets k of the first rTIL payload of the region such that the
\* bytes from k to the position of parse_data are two present-run records
TwoPresentRuns ==
    {k \in (til.lo - 4)..(til.lo - 2) :
        /\ k >= RegionStart + 8
        /\ PresentAt(k, til.lo)
        /\ PresentAt(k + PresentSize(k), til.lo)
        /\ k + PresentSize(k) + PresentSize(k + PresentSize(k)) = til.lo}

\* the region and the cursor before the record at offset k of the first rTIL
\* payload; st is "ok" when the bytes before k are whole records that decode
Before(k) ==
    parse_data(EmptyRegion, Slice(data, RegionStart + 8, k), InitialCoord,
               overflow_checks)

EndsOnRow(x, y, run) == x + run <= GRID /\ (x + run = GRID => y + 1 < U16)

SubChunkTooLong ==
    /\ region_data.hi - region_data.lo > 8
    /\ 8 + from_le_bytes(data, region_data.lo + 4) > region_data.hi - region_data.lo

\* the payload of the sub-chunk is within the REGN payload, its padding to 4
\* bytes is not
SubPaddingMissing ==
    /\ region_data.hi - region_data.lo > 8
    /\ 8 + from_le_bytes(data, region_data.lo + 4) <= region_data.hi - region_data.lo
    /\ 8 + ((from_le_bytes(data, region_data.lo + 4) + 3) \div 4) * 4
         > region_data.hi - region_data.lo

\* C26: the sub-chunk loop never reads outside the REGN payload: a sub-chunk
\* whose declared size exceeds the bytes remaining, or a last sub-chunk
\* whose payload is complete and whose padding is not within the REGN
\* payload, ends the region without an out-of-range access (a panic), and
\* elvl_read goes on to return Ok or Err.
C26_SubChunksInPayload ==
    [][/\ (pc = "region_loop" /\ SubChunkTooLong) => ret' # "Panic"
       /\ (/\ pc = "region_loop"
           /\ SubPaddingMissing
           /\ SubKind = TAG_rNAM => from_utf8_ok(SubPayload))
          => ret' # "Panic"
       /\ (pc = "parse_data" /\ til.lo >= til.hi /\ SubPaddingMissing)
          => ret' # "Panic"]_vars

\* ------------------------------------------------------------------------
\* C27
\* ------------------------------------------------------------------------
\* the payload of the chunk at the loop's position is within the buffer, its
\* size is not a multiple of 4 and its padding is not all in the buffer
PaddingMissing ==
    /\ 8 + from_le_bytes(data, pos + 4) <= Len(data) - pos
    /\ from_le_bytes(data, pos + 4) % 4 # 0
    /\ 8 + ((from_le_bytes(data, pos + 4) + 3) \div 4) * 4 > Len(data) - pos

\* C27: a last top-level chunk whose payload is all there, whose size is not
\* a multiple of 4 and whose padding is missing from the end of the buffer
\* is decoded and pushed, and elvl_read then returns Ok with it: the advance
\* past the padding does not index beyond the buffer.
C27_LastChunkUnpadded ==
    [][/\ (/\ pc = "chunk_loop"
           /\ ChunkLoopCondition
           /\ HeaderAt(pos).kind # TAG_REGN
           /\ PaddingMissing
           /\ ret' # "Err")
          => /\ ret' = "none"
             /\ Len(chunks') = Len(chunks) + 1
       /\ (pc = "region_loop" /\ ~RegionLoopCondition /\ PaddingMissing)
          => /\ ret' = "none"
             /\ Len(chunks') = Len(chunks) + 1]_vars

\* ------------------------------------------------------------------------
\* C28
\* ------------------------------------------------------------------------
\* C28: for the run records decoded across the rTIL sub-chunks of a region,
\* the 16-bit cursor arithmetic never overflows: for a record of length run
\* at (x, y), x + run and y + 1 (kinds 0-3), x + i for i < run (kinds 2, 3),
\* y + run (kinds 4-7) and y + i for i < run (kinds 6, 7) are all at most
\* 65535, and the cursor is not wrapped modulo 2^16.
C28_NoCursorOverflow ==
    [][AtRecord(0..7)
       => LET kind == sequence_kind(data[til.lo + 1])
              x == coord[1]
              y == coord[2]
          IN  /\ kind \in 0..3
                 => /\ x + RunHere <= 65535
                    /\ x + RunHere >= 1024 => y + 1 <= 65535
                    /\ ret' = "none"
                       => coord' = IF x + RunHere >= 1024 THEN <<0, y + 1>>
                                   ELSE <<x + RunHere, y>>
              /\ kind \in 2..3 => x + (RunHere - 1) <= 65535
              /\ kind \in 4..7
                 => /\ y + RunHere <= 65535
                    /\ (ret' = "none") => coord' = <<0, y + RunHere>>]_vars

====
